---- MODULE Spec2Model ----
(***************************************************************************)
(* Tic Tac Toe on a BOARD_SIZE x BOARD_SIZE board: the game engine of      *)
(* tic_tac_toe.py (winning lines, make_move, evaluate_state), its command  *)
(* line loop (get_move, play_round, main) and the Flask adapter of app.py  *)
(* (index, move, reset over the visitor's session).                        *)
(*                                                                         *)
(* Python values are modelled as follows.  A tuple or list is a function   *)
(* over 0 .. len-1 (Python indexes from 0).  A str read from input or a    *)
(* form field is a sequence of one-character strings.  None is the string  *)
(* "None".  A call that may raise returns a record whose field `raised`    *)
(* names the exception ("" when the call returned).                        *)
(***************************************************************************)
EXTENDS Integers, Sequences, FiniteSets, TLC

BOARD_SIZE == 5
TOTAL_CELLS == BOARD_SIZE * BOARD_SIZE

None == "None"
Marks == {"X", "O"}

(***************************************************************************)
(* Python helpers.                                                         *)
(***************************************************************************)
\* len() of a tuple/list held as a function over 0 .. n-1
PyLen(t) == Cardinality(DOMAIN t)

\* range(n) as a set
Range(n) == 0 .. (n - 1)

(***************************************************************************)
(* generate_winning_lines: the four kinds of line, each a tuple of cell    *)
(* indices, and their concatenation in the order the code appends them.    *)
(***************************************************************************)
RowLine(size, row) == [col \in Range(size) |-> row * size + col]

ColLine(size, col) == [row \in Range(size) |-> col + row * size]

DiagLine(size) == [i \in Range(size) |-> i * size + i]

\* the anti-diagonal counted from `size` instead of `size - 1`
AntiDiagLine_OffByOne(size) == [i \in Range(size) |-> i * size + (size - i)]

AntiDiagLine(size) == [i \in Range(size) |-> i * size + (size - 1 - i)]

\* lines is a TLA+ sequence (1-based) of tuples, in append order
generate_winning_lines(size) ==
    [k \in 1 .. (2 * size + 2) |->
        IF k <= size THEN RowLine(size, k - 1)
        ELSE IF k <= 2 * size THEN ColLine(size, k - 1 - size)
        ELSE IF k = 2 * size + 1 THEN DiagLine(size)
        ELSE AntiDiagLine(size)]

\* the lines in the opposite order: anti-diagonal first, row 0 last
WINNING_LINES_Reversed ==
    [k \in 1 .. (2 * BOARD_SIZE + 2) |->
        generate_winning_lines(BOARD_SIZE)[2 * BOARD_SIZE + 3 - k]]

WINNING_LINES == generate_winning_lines(BOARD_SIZE)

(***************************************************************************)
(* GameState, new_game, make_move.                                         *)
(***************************************************************************)
GameState(board, active) == [board |-> board, active |-> active]

new_game(starting_player) ==
    GameState([i \in Range(TOTAL_CELLS) |-> " "], starting_player)

\* list item assignment board[slot] = value: a negative slot counts from the
\* end, a slot outside -len .. len-1 raises IndexError
ListSetItem(board, slot, value) ==
    LET n == PyLen(board)
        at == IF slot < 0 THEN slot + n ELSE slot
    IN  IF slot < -n \/ slot >= n
        THEN [raised |-> "IndexError", value |-> board]
        ELSE [raised |-> "", value |-> [board EXCEPT ![at] = value]]

Opponent(active) == IF active = "X" THEN "O" ELSE "X"

\* make_move without the switch of turn
make_move_NoSwitch(state, slot) ==
    LET set == ListSetItem(state.board, slot, state.active)
    IN  IF set.raised # ""
        THEN [raised |-> set.raised, state |-> state]
        ELSE [raised |-> "", state |-> GameState(set.value, state.active)]

\* make_move performs no validation of its own: it writes the cell and flips
make_move(state, slot) ==
    LET set == ListSetItem(state.board, slot, state.active)
    IN  IF set.raised # ""
        THEN [raised |-> set.raised, state |-> state]
        ELSE [raised |-> "", state |-> GameState(set.value, Opponent(state.active))]

\* make_move with `board` bound to the tuple of the argument itself
make_move_memory_Aliased(state, slot) ==
    LET entry == [state0 |-> [board |-> "tuple0", active |-> state.active],
                  tuple0 |-> state.board,
                  list1  |-> state.board]
        board == entry.state0.board
        set   == ListSetItem(entry[board], slot, state.active)
    IN  IF set.raised # ""
        THEN [raised |-> set.raised, objects |-> entry,
              argument |-> "state0", returned |-> None]
        ELSE LET written == [entry EXCEPT ![board] = set.value]
             IN  [raised |-> "",
                  objects |-> written @@
                      [tuple2 |-> written[board],
                       state3 |-> [board |-> "tuple2",
                                   active |-> Opponent(state.active)]],
                  argument |-> "state0", returned |-> "state3"]

\* the objects of one call of make_move, by name: state0 and tuple0 are the
\* argument and its board, list1 the list that list(state.board) builds,
\* tuple2 and state3 the tuple and the GameState of the return statement.
\* The only write of the function is the item assignment to `board`.
make_move_memory(state, slot) ==
    LET entry == [state0 |-> [board |-> "tuple0", active |-> state.active],
                  tuple0 |-> state.board,
                  list1  |-> state.board]
        board == "list1"
        set   == ListSetItem(entry[board], slot, state.active)
    IN  IF set.raised # ""
        THEN [raised |-> set.raised, objects |-> entry,
              argument |-> "state0", returned |-> None]
        ELSE LET written == [entry EXCEPT ![board] = set.value]
             IN  [raised |-> "",
                  objects |-> written @@
                      [tuple2 |-> written[board],
                       state3 |-> [board |-> "tuple2",
                                   active |-> Opponent(state.active)]],
                  argument |-> "state0", returned |-> "state3"]

(***************************************************************************)
(* check_winner, is_draw, evaluate_state.                                  *)
(***************************************************************************)
\* the comparison stopping one cell short of the end of the line
LineWon_SkipsLast(cells, line) ==
    LET first == cells[line[0]]
    IN  first # " "
        /\ \A k \in (DOMAIN line) \ {0, PyLen(line) - 1} : cells[line[k]] = first

LineWon(cells, line) ==
    LET first == cells[line[0]]
    IN  first # " " /\ \A k \in (DOMAIN line) \ {0} : cells[line[k]] = first

\* the scan returns at the first won line of `lines`
RECURSIVE ScanLines(_, _, _)
ScanLines(lines, cells, k) ==
    IF k > Len(lines) THEN None
    ELSE IF LineWon(cells, lines[k]) THEN cells[lines[k][0]]
    ELSE ScanLines(lines, cells, k + 1)

\* the scan over the rows only
check_winner_RowsOnly(board) ==
    ScanLines(SubSeq(WINNING_LINES, 1, BOARD_SIZE), board, 1)

check_winner(board) == ScanLines(WINNING_LINES, board, 1)

\* is_draw with any() in place of all()
is_draw_AnyFilled(board) == \E i \in DOMAIN board : board[i] # " "

is_draw(board) == \A i \in DOMAIN board : board[i] # " "

\* `if winner:` is true of every mark: a won line's first cell is never " "
evaluate_state(state) ==
    LET winner == check_winner(state.board)
    IN  IF winner # None THEN winner
        ELSE IF is_draw(state.board) THEN "draw"
        ELSE None


(***************************************************************************)
(* State.                                                                  *)
(*   session, response       the visitor's Flask session and the last      *)
(*                           response (handler and flashed message)        *)
(*   req_pc, req_raw,        the requests in flight of the concurrent      *)
(*   req_state, base,        adapter model: position in move(), form       *)
(*   accepted                field, the state read; the state before the   *)
(*                           round and the moves stored in it              *)
(*   state, cli_pc,          play_round's local state, the position of the *)
(*   printed                 command line program, the last message        *)
(*                           it printed                                    *)
(*   e_state, e_slot,        a direct call of the engine: its arguments,   *)
(*   e_memory                the objects of that call of make_move, after  *)
(*                           the call                                      *)
(*   e_result, e_outcome,    what make_move returned, what evaluate_state  *)
(*   e_pc                    returned                                      *)
(*   gl_size, gl_lines,      a run of generate_winning_lines: its          *)
(*   gl_i, gl_pc             argument, `lines`, the loop variable, the     *)
(*                           loop it is in                                 *)
(***************************************************************************)
VARIABLES session, response,
          req_pc, req_raw, req_state, base, accepted,
          state, cli_pc, printed,
          e_state, e_slot, e_result, e_outcome, e_pc, e_memory,
          gl_size, gl_lines, gl_i, gl_pc

webVars == <<session, response>>
concVars == <<req_pc, req_raw, req_state, base, accepted>>
cliVars == <<state, cli_pc, printed>>
engineVars == <<e_state, e_slot, e_result, e_outcome, e_pc, e_memory>>
linesVars == <<gl_size, gl_lines, gl_i, gl_pc>>
vars == <<webVars, concVars, cliVars, engineVars, linesVars>>

\* a Python tuple from a TLA+ sequence
Tup(seq) == [i \in Range(Len(seq)) |-> seq[i + 1]]

(***************************************************************************)
(* Direct calls of the engine.  The argument boards are built row by row   *)
(* from RowPatterns, which gives empty, in-progress, won (by row, column   *)
(* and both diagonals, for either mark), drawn and doubly-won boards.      *)
(***************************************************************************)
RowPatterns ==
    { Tup(<<" ", " ", " ", " ", " ">>),
      Tup(<<"X", "X", "X", "X", "X">>),
      Tup(<<"O", "O", "O", "O", "O">>),
      Tup(<<"X", "O", "X", "O", "X">>),
      Tup(<<"O", "X", "O", "X", "O">>),
      Tup(<<"O", "O", "O", "O", " ">>) }

EngineBoards ==
    { [i \in Range(TOTAL_CELLS) |-> rows[i \div BOARD_SIZE][i % BOARD_SIZE]] :
        rows \in [Range(BOARD_SIZE) -> RowPatterns] }

\* how far beyond the board the slots of a direct call reach
SlotMargin == 1

EngineSlots ==
    Range(TOTAL_CELLS) \cup {-1, -TOTAL_CELLS}
        \cup { -TOTAL_CELLS - k : k \in 1 .. SlotMargin }
        \cup { TOTAL_CELLS - 1 + k : k \in 1 .. SlotMargin }

EngineIdle ==
    /\ e_state = new_game("X")
    /\ e_slot = 0
    /\ e_result = [raised |-> "", state |-> new_game("X")]
    /\ e_memory = None
    /\ e_outcome = None
    /\ e_pc = "off"

EngineInit ==
    /\ e_state \in { GameState(b, a) : b \in EngineBoards, a \in Marks }
    /\ e_slot = 0
    /\ e_result = [raised |-> "", state |-> e_state]
    /\ e_memory = None
    /\ e_outcome = None
    /\ e_pc = "input"

CallMakeMove ==
    /\ e_pc = "input"
    /\ \E slot \in EngineSlots :
        /\ e_slot' = slot
        /\ e_result' = make_move(e_state, slot)
        /\ e_memory' = make_move_memory(e_state, slot)
    /\ e_pc' = "moved"
    /\ UNCHANGED <<e_state, e_outcome>>
    /\ UNCHANGED <<webVars, concVars, cliVars, linesVars>>

CallEvaluate ==
    /\ e_pc = "input"
    /\ e_outcome' = evaluate_state(e_state)
    /\ e_pc' = "evaluated"
    /\ UNCHANGED <<e_state, e_slot, e_result, e_memory>>
    /\ UNCHANGED <<webVars, concVars, cliVars, linesVars>>


(***************************************************************************)
(* A run of generate_winning_lines, one append per step.                   *)
(***************************************************************************)
\* the largest board size generate_winning_lines is run on
MaxSize == 8

LinesIdle ==
    /\ gl_size = 0
    /\ gl_lines = << >>
    /\ gl_i = 0
    /\ gl_pc = "off"

LinesInit ==
    /\ gl_size \in 1 .. MaxSize
    /\ gl_lines = << >>
    /\ gl_i = 0
    /\ gl_pc = "rows"

AppendRow ==
    /\ gl_pc = "rows"
    /\ gl_i < gl_size
    /\ gl_lines' = Append(gl_lines, RowLine(gl_size, gl_i))
    /\ gl_i' = gl_i + 1
    /\ UNCHANGED <<gl_size, gl_pc>>
    /\ UNCHANGED <<webVars, concVars, cliVars, engineVars>>

RowsDone ==
    /\ gl_pc = "rows"
    /\ gl_i = gl_size
    /\ gl_i' = 0
    /\ gl_pc' = "cols"
    /\ UNCHANGED <<gl_size, gl_lines>>
    /\ UNCHANGED <<webVars, concVars, cliVars, engineVars>>

AppendCol ==
    /\ gl_pc = "cols"
    /\ gl_i < gl_size
    /\ gl_lines' = Append(gl_lines, ColLine(gl_size, gl_i))
    /\ gl_i' = gl_i + 1
    /\ UNCHANGED <<gl_size, gl_pc>>
    /\ UNCHANGED <<webVars, concVars, cliVars, engineVars>>

ColsDone ==
    /\ gl_pc = "cols"
    /\ gl_i = gl_size
    /\ gl_i' = 0
    /\ gl_pc' = "diag"
    /\ UNCHANGED <<gl_size, gl_lines>>
    /\ UNCHANGED <<webVars, concVars, cliVars, engineVars>>

AppendDiag ==
    /\ gl_pc = "diag"
    /\ gl_lines' = Append(gl_lines, DiagLine(gl_size))
    /\ gl_pc' = "anti"
    /\ UNCHANGED <<gl_size, gl_i>>
    /\ UNCHANGED <<webVars, concVars, cliVars, engineVars>>

AppendAntiDiag ==
    /\ gl_pc = "anti"
    /\ gl_lines' = Append(gl_lines, AntiDiagLine(gl_size))
    /\ gl_pc' = "done"
    /\ UNCHANGED <<gl_size, gl_i>>
    /\ UNCHANGED <<webVars, concVars, cliVars, engineVars>>

(***************************************************************************)
(* Text: str.strip, str.isdigit, str.lower and int() over the characters   *)
(* the inputs are drawn from.  "sup2" stands for the one character         *)
(* SUPERSCRIPT TWO, which str.isdigit accepts and int() rejects.           *)
(***************************************************************************)
DigitChars == <<"0", "1", "2", "3", "4", "5", "6", "7", "8", "9">>

IsAsciiDigit(ch) == \E d \in 1 .. 10 : DigitChars[d] = ch

DigitValue(ch) == (CHOOSE d \in 1 .. 10 : DigitChars[d] = ch) - 1

RECURSIVE StripLeft(_)
StripLeft(raw) ==
    IF raw # << >> /\ Head(raw) = " " THEN StripLeft(Tail(raw)) ELSE raw

RECURSIVE StripRight(_)
StripRight(raw) ==
    IF raw # << >> /\ raw[Len(raw)] = " "
    THEN StripRight(SubSeq(raw, 1, Len(raw) - 1))
    ELSE raw

Strip(raw) == StripRight(StripLeft(raw))

Lower(raw) ==
    [k \in 1 .. Len(raw) |->
        IF raw[k] = "Y" THEN "y" ELSE IF raw[k] = "N" THEN "n" ELSE raw[k]]

IsDigit(raw) ==
    /\ raw # << >>
    /\ \A k \in 1 .. Len(raw) : IsAsciiDigit(raw[k]) \/ raw[k] = "sup2"

RECURSIVE DecimalValue(_)
DecimalValue(digits) ==
    IF digits = << >> THEN 0
    ELSE 10 * DecimalValue(SubSeq(digits, 1, Len(digits) - 1))
            + DigitValue(digits[Len(digits)])

\* int(raw): surrounding whitespace and one sign are accepted, then one or
\* more decimal digits; anything else raises ValueError
PyInt(raw) ==
    LET s == Strip(raw)
        signed == s # << >> /\ Head(s) \in {"+", "-"}
        digits == IF signed THEN Tail(s) ELSE s
    IN  IF digits # << >> /\ \A k \in 1 .. Len(digits) : IsAsciiDigit(digits[k])
        THEN [raised |-> "",
              value |-> IF signed /\ Head(s) = "-"
                        THEN 0 - DecimalValue(digits)
                        ELSE DecimalValue(digits)]
        ELSE [raised |-> "ValueError", value |-> 0]

\* str(n) for 0 <= n < 100
Decimal(n) ==
    IF n < 10 THEN <<DigitChars[n + 1]>>
    ELSE <<DigitChars[(n \div 10) + 1], DigitChars[(n % 10) + 1]>>

(***************************************************************************)
(* The moves the players are taken to choose.  A 5 x 5 game has far too    *)
(* many positions to enumerate, so the players follow one of the Openings  *)
(* move for move until at most MaxFree cells are empty, and choose freely  *)
(* among the empty cells from then on.  Inputs that the program rejects    *)
(* (malformed, outside the board, occupied cell, finished game) are        *)
(* offered in every state.                                                 *)
(***************************************************************************)
\* rows 1 to 3 and two cells each of rows 0 and 4 filled without a win; then
\* X may still complete column 0, column 2 or the anti-diagonal, O column 4,
\* or nobody (a draw)
OpeningMiddle ==
    <<5, 9, 10, 14, 15, 19, 8, 6, 12, 18, 16, 11, 7, 13, 17, 23, 21, 1, 3>>

\* X takes row 0 while O plays 5, 6, 7, 8: a win on the ninth move
OpeningRow == <<0, 5, 1, 6, 2, 7, 3, 8, 4>>

Openings == {OpeningMiddle, OpeningRow}

\* the number of empty cells from which the choice of cell is free
MaxFree == 6

FilledCount(board) == Cardinality({i \in DOMAIN board : board[i] # " "})

\* the board after the first k moves of opening s, X moving first
ScriptBoard(s, k) ==
    [i \in Range(TOTAL_CELLS) |->
        IF \E j \in 1 .. k : s[j] = i
        THEN IF (CHOOSE j \in 1 .. k : s[j] = i) % 2 = 1 THEN "X" ELSE "O"
        ELSE " "]

FollowsOpening(board, slot) ==
    LET k == FilledCount(board)
    IN  \E s \in Openings :
            /\ k < Len(s)
            /\ board = ScriptBoard(s, k)
            /\ slot = s[k + 1]

\* slot is a choice the players make at st, or one the program rejects
Offered(st, slot) ==
    \/ slot \notin Range(TOTAL_CELLS)
    \/ st.board[slot] # " "
    \/ evaluate_state(st) # None
    \/ TOTAL_CELLS - FilledCount(st.board) <= MaxFree
    \/ FollowsOpening(st.board, slot)

(***************************************************************************)
(* app.py: the session and its three handlers.  The session is a function  *)
(* from the keys it holds to their values.                                 *)
(***************************************************************************)
EmptySession == [k \in {} |-> None]

\* session[key] = value
SessionSet(sess, key, value) == (key :> value) @@ sess

_set_state(sess, st) ==
    SessionSet(SessionSet(sess, "board", st.board), "active", st.active)

\* returns the state and the session, which it writes when it holds no board
\* of TOTAL_CELLS cells
_get_state(sess) ==
    LET hasBoard == "board" \in DOMAIN sess
        active == IF "active" \in DOMAIN sess THEN sess["active"] ELSE "X"
    IN  IF ~hasBoard \/ PyLen(sess["board"]) = 0
           \/ PyLen(sess["board"]) # TOTAL_CELLS
        THEN [state |-> new_game("X"), session |-> _set_state(sess, new_game("X"))]
        ELSE [state |-> GameState(sess["board"], active), session |-> sess]

\* move() without its check of the outcome
GameFinished_Never(st) == FALSE

\* move(), line 66-67: the game is finished
GameFinished(st) == evaluate_state(st) # None

\* move(), line 78
OutsideBoard(position) == position < 0 \/ position >= TOTAL_CELLS

\* move() without its check of the cell
SquareTaken_Never(st, position) == FALSE

\* move(), line 82
SquareTaken(st, position) == st.board[position] # " "

\* move() after _get_state: the message flashed, and the state stored if any
MoveDecide(st, raw_position) ==
    LET parsed == PyInt(raw_position)
        position == parsed.value
        keep(msg) == [flash |-> msg, store |-> FALSE, state |-> st]
    IN  IF GameFinished(st)
        THEN keep("The game is finished. Start a new game to continue.")
        ELSE IF parsed.raised = "ValueError"
        THEN keep("Invalid move selection.")
        ELSE IF OutsideBoard(position)
        THEN keep("That position is outside the board.")
        ELSE IF SquareTaken(st, position)
        THEN keep("That square is already taken.")
        ELSE [flash |-> "", store |-> TRUE, state |-> make_move(st, position).state]

\* the form fields a POST /move carries ("" when the field is missing)
RawPositions ==
    { Decimal(c) : c \in Range(TOTAL_CELLS) }
        \cup { << >>, <<"x">>, <<"-", "1">>, Decimal(TOTAL_CELLS),
               <<"+", "0">>, <<" ", "4", " ">> }

PositionOffered(st, raw_position) ==
    LET parsed == PyInt(raw_position)
    IN  parsed.raised # "" \/ Offered(st, parsed.value)

OfferedPositions(st) == { raw \in RawPositions : PositionOffered(st, raw) }

WebIdle ==
    /\ session = EmptySession
    /\ response = [handler |-> "", flash |-> ""]

WebInit == WebIdle

\* what the visitor's cookie may hold when the first request arrives: no
\* session, a session the application wrote, or one it did not write (the
\* cookie is signed with the key of line 21 only)
SessionInputs ==
    LET blank == new_game("X").board
    IN  { EmptySession,
          _set_state(EmptySession, new_game("X")),
          _set_state(EmptySession, make_move(new_game("X"), 0).state),
          _set_state(EmptySession, GameState(blank, "Z")),
          _set_state(EmptySession, GameState(blank, None)),
          _set_state(EmptySession, GameState([blank EXCEPT ![5] = "Z"], "X")),
          _set_state(EmptySession, GameState(Tup(<<" ", "X", "O">>), "O")),
          _set_state(EmptySession, GameState(Tup(<< >>), "X")),
          SessionSet(EmptySession, "board", [blank EXCEPT ![0] = "X"]),
          SessionSet(EmptySession, "active", "O") }

WebInitAnySession ==
    /\ session \in SessionInputs
    /\ response = [handler |-> "", flash |-> ""]

\* GET /
index ==
    /\ session' = _get_state(session).session
    /\ response' = [handler |-> "index", flash |-> ""]
    /\ UNCHANGED <<concVars, cliVars, engineVars, linesVars>>

\* POST /move with the form field raw_position
MoveRequest(raw_position) ==
    LET got == _get_state(session)
        decided == MoveDecide(got.state, raw_position)
    IN  /\ session' = IF decided.store
                      THEN _set_state(got.session, decided.state)
                      ELSE got.session
        /\ response' = [handler |-> "move", flash |-> decided.flash]
        /\ UNCHANGED <<concVars, cliVars, engineVars, linesVars>>

\* POST /move
move ==
    \E raw_position \in OfferedPositions(_get_state(session).state) :
        MoveRequest(raw_position)

\* POST /reset that flashes its message and leaves the session as it is
reset_KeepsSession ==
    /\ session' = session
    /\ response' = [handler |-> "reset", flash |-> "Started a new game."]
    /\ UNCHANGED <<concVars, cliVars, engineVars, linesVars>>

\* POST /reset
reset ==
    /\ session' = _set_state(session, new_game("X"))
    /\ response' = [handler |-> "reset", flash |-> "Started a new game."]
    /\ UNCHANGED <<concVars, cliVars, engineVars, linesVars>>

(***************************************************************************)
(* app.py under two POST /move requests of one session in flight at once.  *)
(* move() reads the session at line 65 and writes it at line 87; nothing   *)
(* in app.py holds a lock between the two, so the requests interleave at   *)
(* these two accesses.                                                     *)
(***************************************************************************)
\* the number of requests in flight
NumRequests == 2

Requests == 1 .. NumRequests

\* the concurrent requests address cells 0 .. ConcCells-1
ConcCells == 3

ConcPositions == { Decimal(c) : c \in Range(ConcCells) }

ConcIdle ==
    /\ req_pc = [r \in Requests |-> "off"]
    /\ req_raw = [r \in Requests |-> << >>]
    /\ req_state = [r \in Requests |-> new_game("X")]
    /\ base = EmptySession
    /\ accepted = {}

ConcInit ==
    /\ req_pc = [r \in Requests |-> "idle"]
    /\ req_raw = [r \in Requests |-> << >>]
    /\ req_state = [r \in Requests |-> new_game("X")]
    /\ base = EmptySession
    /\ accepted = {}

\* the requests are sent, each with its form field
Arrive ==
    /\ \A r \in Requests : req_pc[r] \in {"idle", "done"}
    /\ req_raw' \in [Requests -> ConcPositions]
    /\ req_pc' = [r \in Requests |-> "get"]
    /\ base' = session
    /\ accepted' = {}
    /\ UNCHANGED <<session, response, req_state>>
    /\ UNCHANGED <<cliVars, engineVars, linesVars>>

\* move(), line 65
MoveGetState(r) ==
    /\ req_pc[r] = "get"
    /\ session' = _get_state(session).session
    /\ req_state' = [req_state EXCEPT ![r] = _get_state(session).state]
    /\ req_pc' = [req_pc EXCEPT ![r] = "decide"]
    /\ UNCHANGED <<response, req_raw, base, accepted>>
    /\ UNCHANGED <<cliVars, engineVars, linesVars>>

\* move(), lines 66-88, on the state read at line 65
MoveFinish(r) ==
    /\ req_pc[r] = "decide"
    /\ LET decided == MoveDecide(req_state[r], req_raw[r])
       IN  /\ session' = IF decided.store
                         THEN _set_state(session, decided.state)
                         ELSE session
           /\ accepted' = IF decided.store THEN accepted \cup {r} ELSE accepted
           /\ response' = [handler |-> "move", flash |-> decided.flash]
    /\ req_pc' = [req_pc EXCEPT ![r] = "done"]
    /\ UNCHANGED <<req_raw, req_state, base>>
    /\ UNCHANGED <<cliVars, engineVars, linesVars>>

(***************************************************************************)
(* tic_tac_toe.py: get_move, play_round, want_to_continue, main.           *)
(***************************************************************************)
\* one pass of get_move's loop over the line read
get_move(player, board, line) ==
    LET raw == Strip(line)
        parsed == PyInt(raw)
        slot == parsed.value - 1
        again(msg) == [kind |-> "again", slot |-> 0, printed |-> msg]
    IN  IF ~IsDigit(raw)
        THEN again("Please enter a number between 1 and 25.")
        ELSE IF parsed.raised # ""
        THEN [kind |-> "raise", slot |-> 0, printed |-> parsed.raised]
        ELSE IF slot \notin Range(TOTAL_CELLS)
        THEN again("That position is outside the board. Try again.")
        ELSE IF board[slot] # " "
        THEN again("That square is already taken. Choose another.")
        ELSE [kind |-> "return", slot |-> slot, printed |-> ""]

\* play_round going on after a win
RoundWon_Never(outcome) == FALSE

\* play_round, line 128
RoundWon(outcome) == outcome \in {"X", "O"}

\* play_round without the branch of line 133
RoundDrawn_Never(outcome) == FALSE

\* play_round, line 133
RoundDrawn(outcome) == outcome = "draw"

\* the lines typed at the position prompt
MoveLines ==
    { Decimal(c + 1) : c \in Range(TOTAL_CELLS) }
        \cup { << >>, <<"x">>, <<"0">>, <<"-", "1">>, Decimal(TOTAL_CELLS + 1),
               <<" ", "1", " ">>, <<"sup2">> }

\* the lines typed at "Play again?"
AnswerLines == { <<"y">>, <<"Y", "e", "s">>, <<"n">>, <<" ", "n", "o">>, <<"x">> }

\* a race for the first line: X plays any cell of row 0 and O any cell of
\* row 1, in any order, until X completes row 0 with the move 2 * BOARD_SIZE - 1
RowRace(st, slot) ==
    /\ \A i \in Range(TOTAL_CELLS) :
            /\ st.board[i] = "X" => i \div BOARD_SIZE = 0
            /\ st.board[i] = "O" => i \div BOARD_SIZE = 1
    /\ slot \div BOARD_SIZE = (IF st.active = "X" THEN 0 ELSE 1)

LineOffered(st, line) ==
    LET try == get_move(st.active, st.board, line)
    IN  try.kind # "return" \/ Offered(st, try.slot) \/ RowRace(st, try.slot)

OfferedLines(st) == { line \in MoveLines : LineOffered(st, line) }

CliIdle ==
    /\ state = new_game("X")
    /\ cli_pc = "off"
    /\ printed = ""

\* main() has printed the welcome and play_round has built its new game
CliInit ==
    /\ state = new_game("X")
    /\ cli_pc = "prompt"
    /\ printed = "Welcome to Tic Tac Toe!"

\* the turn once get_move has returned a slot: the move, the board shown, and
\* the round ended if the game is won or drawn
Played(moved) ==
    LET outcome == evaluate_state(moved)
    IN  /\ state' = moved
        /\ IF RoundWon(outcome)
           THEN /\ printed' = IF outcome = "X" THEN "Player X wins!"
                                           ELSE "Player O wins!"
                /\ cli_pc' = "again"
           ELSE IF RoundDrawn(outcome)
           THEN /\ printed' = "It's a draw!"
                /\ cli_pc' = "again"
           ELSE /\ printed' = "board"
                /\ UNCHANGED cli_pc

\* one line read by get_move inside play_round's loop, and what follows it
PlayTurn(line) ==
    LET try == get_move(state.active, state.board, line)
    IN  /\ IF try.kind = "again"
           THEN /\ printed' = try.printed
                /\ UNCHANGED <<state, cli_pc>>
           ELSE IF try.kind = "raise"
           THEN /\ printed' = try.printed
                /\ cli_pc' = "crashed"
                /\ UNCHANGED state
           ELSE Played(make_move(state, try.slot).state)
        /\ UNCHANGED <<webVars, concVars, engineVars, linesVars>>

play_round ==
    /\ cli_pc = "prompt"
    /\ \E line \in OfferedLines(state) : PlayTurn(line)

\* one line read by want_to_continue, and main's next step
want_to_continue ==
    /\ cli_pc = "again"
    /\ \E line \in AnswerLines :
        LET answer == Lower(Strip(line))
        IN  IF answer \in {<<"y">>, <<"y", "e", "s">>}
            THEN /\ state' = new_game("X")
                 /\ cli_pc' = "prompt"
                 /\ printed' = "board"
            ELSE IF answer \in {<<"n">>, <<"n", "o">>}
            THEN /\ cli_pc' = "exited"
                 /\ printed' = "Thanks for playing!"
                 /\ UNCHANGED state
            ELSE /\ printed' = "Please answer with 'y' or 'n'."
                 /\ UNCHANGED <<state, cli_pc>>
    /\ UNCHANGED <<webVars, concVars, engineVars, linesVars>>

\* Ctrl-C at either prompt: main catches KeyboardInterrupt
KeyboardInterrupt ==
    /\ cli_pc \in {"prompt", "again"}
    /\ cli_pc' = "exited"
    /\ printed' = "Game interrupted. Goodbye!"
    /\ UNCHANGED state
    /\ UNCHANGED <<webVars, concVars, engineVars, linesVars>>

(***************************************************************************)
(* Specifications.                                                         *)
(***************************************************************************)
\* the web adapter, one request at a time
Init == WebInit /\ ConcIdle /\ CliIdle /\ EngineIdle /\ LinesIdle

Next == index \/ move \/ reset

Spec == Init /\ [][Next]_vars

\* the web adapter, one request at a time, begun with any session
InitSession == WebInitAnySession /\ ConcIdle /\ CliIdle /\ EngineIdle /\ LinesIdle

SpecSession == InitSession /\ [][Next]_vars

\* the web adapter with NumRequests POST /move requests in flight
InitConc == WebInit /\ ConcInit /\ CliIdle /\ EngineIdle /\ LinesIdle

NextConc ==
    \/ Arrive
    \/ \E r \in Requests : MoveGetState(r)
    \/ \E r \in Requests : MoveFinish(r)

SpecConc == InitConc /\ [][NextConc]_vars

\* the command line program
InitCli == WebIdle /\ ConcIdle /\ CliInit /\ EngineIdle /\ LinesIdle

NextCli == play_round \/ want_to_continue \/ KeyboardInterrupt

SpecCli == InitCli /\ [][NextCli]_vars

\* a turn of play_round's loop in which get_move returned a slot
AcceptedMove ==
    /\ cli_pc = "prompt"
    /\ \E slot \in Range(TOTAL_CELLS) :
        /\ state.board[slot] = " "
        /\ Offered(state, slot) \/ RowRace(state, slot)
        /\ Played(make_move(state, slot).state)
    /\ UNCHANGED <<webVars, concVars, engineVars, linesVars>>

\* the command line program with players who, asked for a move again and
\* again, come to type one that get_move returns
SpecCliFair == InitCli /\ [][NextCli]_vars /\ WF_vars(AcceptedMove)

\* a game played through either front end: the web adapter or the command
\* line program, each from its own start
InitGames == Init \/ InitCli

NextGames ==
    \/ cli_pc = "off" /\ index
    \/ cli_pc = "off" /\ move
    \/ cli_pc = "off" /\ reset
    \/ play_round
    \/ want_to_continue
    \/ KeyboardInterrupt

SpecGames == InitGames /\ [][NextGames]_vars

\* direct calls of make_move and evaluate_state
InitEngine == WebIdle /\ ConcIdle /\ CliIdle /\ EngineInit /\ LinesIdle

NextEngine == CallMakeMove \/ CallEvaluate

SpecEngine == InitEngine /\ [][NextEngine]_vars

\* runs of generate_winning_lines
InitLines == WebIdle /\ ConcIdle /\ CliIdle /\ EngineIdle /\ LinesInit

NextLines ==
    \/ AppendRow
    \/ RowsDone
    \/ AppendCol
    \/ ColsDone
    \/ AppendDiag
    \/ AppendAntiDiag

SpecLines == InitLines /\ [][NextLines]_vars

(***************************************************************************)
(* Properties.                                                             *)
(***************************************************************************)
CellAt(board, r, c) == board[r * BOARD_SIZE + c]

\* mark fills a whole row, column or diagonal of board
HasLine(board, mark) ==
    \/ \E r \in Range(BOARD_SIZE) : \A c \in Range(BOARD_SIZE) : CellAt(board, r, c) = mark
    \/ \E c \in Range(BOARD_SIZE) : \A r \in Range(BOARD_SIZE) : CellAt(board, r, c) = mark
    \/ \A i \in Range(BOARD_SIZE) : CellAt(board, i, i) = mark
    \/ \A i \in Range(BOARD_SIZE) : CellAt(board, i, BOARD_SIZE - 1 - i) = mark

IsFull(board) == \A i \in Range(TOTAL_CELLS) : board[i] \in Marks

\* the outcome is a win or a draw
Terminal(st) == HasLine(st.board, "X") \/ HasLine(st.board, "O") \/ IsFull(st.board)

\* the game the session holds; a session without a board reads as a new game
Stored(sess) ==
    IF "board" \in DOMAIN sess
    THEN GameState(sess["board"], sess["active"])
    ELSE new_game("X")

Count(board, mark) == Cardinality({i \in Range(TOTAL_CELLS) : board[i] = mark})

\* st is the state of a legal game begun by starter: the marks alternate,
\* only the player who moved last may hold lines, and these share a cell
\* (the last one played)
LegalFrom(st, starter) ==
    LET board == st.board
        other == Opponent(starter)
        last == Opponent(st.active)
        wonLines == {k \in 1 .. (2 * BOARD_SIZE + 2) :
                        LineWon(board, generate_winning_lines(BOARD_SIZE)[k])}
    IN  /\ Count(board, starter) - Count(board, other) \in {0, 1}
        /\ st.active = starter <=> Count(board, starter) = Count(board, other)
        /\ ~HasLine(board, st.active)
        /\ wonLines # {} =>
              \E i \in Range(TOTAL_CELLS) :
                  \A k \in wonLines :
                      \E j \in Range(BOARD_SIZE) :
                          generate_winning_lines(BOARD_SIZE)[k][j] = i

LegalPosition(st) == LegalFrom(st, "X") \/ LegalFrom(st, "O")

\* C1: a call of make_move on a state whose outcome is a win or a draw fails
\* (GameAlreadyOver; any exception counts), for any index, and returns the
\* board it was given.  Stated of the states of legal games.
C1_TerminalLock ==
    (e_pc = "moved" /\ LegalPosition(e_state) /\ Terminal(e_state))
        => /\ e_result.raised # ""
           /\ e_result.state.board = e_state.board

\* C2: evaluate_state returns a mark exactly when some row, column or diagonal
\* is filled with one mark, and then a mark that fills one; otherwise "draw"
\* exactly when no cell is empty; otherwise None.  A full board with a won
\* line is a win.
C2_EvaluateOutcome ==
    e_pc = "evaluated" =>
        LET board == e_state.board
            won == HasLine(board, "X") \/ HasLine(board, "O")
        IN  /\ won <=> e_outcome \in Marks
            /\ e_outcome \in Marks => HasLine(board, e_outcome)
            /\ e_outcome = "draw" <=> (~won /\ IsFull(board))
            /\ e_outcome = None <=> (~won /\ ~IsFull(board))

\* evaluate_state has been called on a full board with a won line
C2_Witness ==
    /\ e_pc = "evaluated"
    /\ IsFull(e_state.board)
    /\ HasLine(e_state.board, "X")
    /\ e_outcome = "X"

\* C3: on an in-progress state and the index of an empty cell of the board,
\* make_move returns a state whose addressed cell holds the mark that was
\* active, whose other cells are as before, with one more cell filled and
\* the other mark active.
C3_MoveEffect ==
    ( /\ e_pc = "moved"
      /\ ~Terminal(e_state)
      /\ e_slot \in Range(TOTAL_CELLS)
      /\ e_state.board[e_slot] = " " )
        => LET before == e_state.board
               after == e_result.state.board
           IN  /\ e_result.raised = ""
               /\ after[e_slot] = e_state.active
               /\ \A i \in Range(TOTAL_CELLS) \ {e_slot} : after[i] = before[i]
               /\ FilledCount(after) = FilledCount(before) + 1
               /\ e_state.active = "X" => e_result.state.active = "O"
               /\ e_state.active = "O" => e_result.state.active = "X"

\* make_move has been called on an in-progress state and an empty cell
C3_Witness ==
    /\ e_pc = "moved"
    /\ ~Terminal(e_state)
    /\ FilledCount(e_state.board) > 0
    /\ e_slot \in Range(TOTAL_CELLS)
    /\ e_state.board[e_slot] = " "
    /\ e_result.state.board[e_slot] = "O"

\* C4: a call of make_move with an index below 0 or at least N*N fails
\* (OutOfRange; any exception counts) and changes no cell and not the active
\* mark.  Stated of the states of legal games.
C4_OutOfRange ==
    ( /\ e_pc = "moved"
      /\ LegalPosition(e_state)
      /\ (e_slot < 0 \/ e_slot >= TOTAL_CELLS) )
        => /\ e_result.raised # ""
           /\ e_result.state = e_state

\* C5: a call of make_move with the index of a cell that is not empty fails
\* (CellOccupied; any exception counts) and the cell keeps its mark.  Stated
\* of the states of legal games.
C5_CellOccupied ==
    ( /\ e_pc = "moved"
      /\ LegalPosition(e_state)
      /\ e_slot \in Range(TOTAL_CELLS)
      /\ e_state.board[e_slot] # " " )
        => /\ e_result.raised # ""
           /\ e_result.state.board[e_slot] = e_state.board[e_slot]

\* C6: once the stored game is won or drawn, a POST /move leaves the stored
\* board and active mark as they are, and the stored game becomes in-progress
\* again only by a POST /reset.
C6_TerminalUntilReset ==
    [][ Terminal(Stored(session)) =>
            /\ response'.handler = "move" => Stored(session') = Stored(session)
            /\ ~Terminal(Stored(session')) => response'.handler = "reset" ]_vars

\* a POST /move has been refused on a won game that still has empty cells
C6_Witness ==
    /\ response.handler = "move"
    /\ response.flash = "The game is finished. Start a new game to continue."
    /\ HasLine(Stored(session).board, "O")
    /\ ~IsFull(Stored(session).board)

\* C7: a POST /move stores make_move(state, position) when the game is in
\* progress, the position is a number of a cell of the board and that cell is
\* empty; with any other form field the stored board and active mark stay.
C7_MoveStoresOnlyValid ==
    [][ \A raw \in RawPositions :
            MoveRequest(raw) =>
                LET st == Stored(session)
                    parsed == PyInt(raw)
                    valid == /\ ~Terminal(st)
                             /\ parsed.raised = ""
                             /\ parsed.value \in Range(TOTAL_CELLS)
                             /\ st.board[parsed.value] = " "
                IN  IF valid
                    THEN Stored(session') = make_move(st, parsed.value).state
                    ELSE Stored(session') = st ]_vars

\* a POST /move on an occupied cell has been refused during a game
C7_Witness ==
    /\ response.handler = "move"
    /\ response.flash = "That square is already taken."
    /\ ~Terminal(Stored(session))
    /\ FilledCount(Stored(session).board) > 0

\* the lines of WINNING_LINES in the opposite order
ReversedLines ==
    [k \in 1 .. Len(WINNING_LINES) |-> WINNING_LINES[Len(WINNING_LINES) + 1 - k]]

\* C8: in play_round no board holds a full line of X and a full line of O, so
\* the winner found does not depend on the order the lines are scanned in.
C8_OneWinner ==
    /\ ~(HasLine(state.board, "X") /\ HasLine(state.board, "O"))
    /\ check_winner(state.board) = ScanLines(ReversedLines, state.board, 1)

\* a round has ended with two lines completed at once
C8_Witness ==
    /\ cli_pc = "again"
    /\ Cardinality({k \in 1 .. Len(WINNING_LINES) :
                        LineWon(state.board, WINNING_LINES[k])}) >= 2

\* the moves of the requests in `order`, applied one after the other
RECURSIVE ApplyInOrder(_, _)
ApplyInOrder(st, order) ==
    IF order = << >> THEN st
    ELSE ApplyInOrder(make_move(st, PyInt(req_raw[Head(order)]).value).state,
                      Tail(order))

Orders(S) ==
    { order \in [1 .. Cardinality(S) -> S] :
        \A i, j \in 1 .. Cardinality(S) : order[i] = order[j] => i = j }

\* C9: when the concurrent POST /move requests have completed, the stored
\* state is the state before them with the accepted moves applied one after
\* the other in some order.
C9_Serialized ==
    (\A r \in Requests : req_pc[r] = "done")
        => \E order \in Orders(accepted) :
               Stored(session) = ApplyInOrder(Stored(base), order)

\* C10: generate_winning_lines(N) returns 2N+2 lines, each of N pairwise
\* distinct indices in 0 .. N*N-1; for N = 1, four lines holding index 0.
C10_WinningLines ==
    gl_pc = "done" =>
        /\ Len(gl_lines) = 2 * gl_size + 2
        /\ \A k \in 1 .. Len(gl_lines) :
            /\ DOMAIN gl_lines[k] = Range(gl_size)
            /\ \A i, j \in Range(gl_size) :
                gl_lines[k][i] = gl_lines[k][j] => i = j
            /\ \A i \in Range(gl_size) : gl_lines[k][i] \in Range(gl_size * gl_size)
        /\ gl_size = 1 =>
            /\ Len(gl_lines) = 4
            /\ \A k \in 1 .. 4 : gl_lines[k] = Tup(<<0>>)

\* generate_winning_lines(1) has returned
C10_Witness == gl_pc = "done" /\ gl_size = 1 /\ Len(gl_lines) = 4

\* the session holds a board of TOTAL_CELLS cells over " ", "X", "O" and an
\* active mark X or O
WellFormed(sess) ==
    /\ DOMAIN sess = {"board", "active"}
    /\ DOMAIN sess["board"] = Range(TOTAL_CELLS)
    /\ \A i \in Range(TOTAL_CELLS) : sess["board"][i] \in {" ", "X", "O"}
    /\ sess["active"] \in Marks

\* the session that holds a new game: every cell empty, X active
FreshSession ==
    [board |-> [i \in Range(TOTAL_CELLS) |-> " "], active |-> "X"]

\* C11: the state _get_state returns to a handler (a new game, the stored
\* game, or the game make_move produced and stored) has X or O as its active
\* mark, whatever the session held.
C11_ActiveIsMark ==
    response.handler \in {"index", "move"}
        => _get_state(session).state.active \in Marks

\* C12: a GET / on a session whose data is absent or malformed leaves the
\* session holding a new game: _get_state returned and stored it.
C12_MalformedReplaced ==
    [][ (response'.handler = "index" /\ ~WellFormed(session))
            => session' = FreshSession ]_vars

\* C13: after a call of make_move the GameState passed in holds the board
\* and the active mark it held before the call, and the board of the returned
\* state is another object than the board passed in.
C13_InputUntouched ==
    e_pc = "moved"
        => LET argument == e_memory.objects[e_memory.argument]
           IN  /\ e_memory.raised = e_result.raised
               /\ argument.active = e_state.active
               /\ e_memory.objects[argument.board] = e_state.board
               /\ e_memory.raised = ""
                    => LET returned == e_memory.objects[e_memory.returned]
                       IN  /\ returned.board # argument.board
                           /\ e_memory.objects[returned.board] = e_result.state.board
                           /\ returned.active = e_result.state.active

C13_Witness ==
    /\ e_pc = "moved"
    /\ e_slot \in Range(TOTAL_CELLS)
    /\ e_state.board[e_slot] = " "
    /\ e_result.raised = ""
    /\ e_result.state.board # e_state.board
    /\ e_memory.objects["list1"] = e_result.state.board

\* the game in play: the one the session holds, or the one of the command
\* line program
GameNow == IF cli_pc = "off" THEN Stored(session) ELSE state

\* C14: in every state of a game whose board shows a full row, column or
\* diagonal of one mark, evaluate_state returns that mark as the winner, and
\* that mark belongs to the player who just moved: it is not the active mark.
C14_WinnerJustMoved ==
    \A mark \in Marks :
        HasLine(GameNow.board, mark)
            => /\ evaluate_state(GameNow) = mark
               /\ GameNow.active = Opponent(mark)
               /\ GameNow.active # mark

C14_Witness ==
    /\ response.handler = "move"
    /\ response.flash = ""
    /\ HasLine(Stored(session).board, "O")
    /\ ~IsFull(Stored(session).board)
    /\ evaluate_state(Stored(session)) = "O"
    /\ Stored(session).active = "X"

RowFull(board, r) ==
    /\ CellAt(board, r, 0) \in Marks
    /\ \A c \in Range(BOARD_SIZE) : CellAt(board, r, c) = CellAt(board, r, 0)

ColFull(board, c) ==
    /\ CellAt(board, 0, c) \in Marks
    /\ \A r \in Range(BOARD_SIZE) : CellAt(board, r, c) = CellAt(board, 0, c)

\* the mark of the first full line of board: the topmost full row, else the
\* leftmost full column, else the main diagonal, else the anti-diagonal
FirstFullLineMark(board) ==
    IF \E r \in Range(BOARD_SIZE) : RowFull(board, r)
    THEN LET r == CHOOSE r \in Range(BOARD_SIZE) :
                    /\ RowFull(board, r)
                    /\ \A q \in Range(BOARD_SIZE) : RowFull(board, q) => r <= q
         IN  CellAt(board, r, 0)
    ELSE IF \E c \in Range(BOARD_SIZE) : ColFull(board, c)
    THEN LET c == CHOOSE c \in Range(BOARD_SIZE) :
                    /\ ColFull(board, c)
                    /\ \A q \in Range(BOARD_SIZE) : ColFull(board, q) => c <= q
         IN  CellAt(board, 0, c)
    ELSE IF HasLine(board, "X") THEN "X"
    ELSE IF HasLine(board, "O") THEN "O"
    ELSE None

\* C15: on a board with full lines of both marks (such boards hold parallel
\* rows or parallel columns) the winner found is the mark of the first full
\* line in the order rows top to bottom, columns left to right, main
\* diagonal, anti-diagonal; and so it is on every board with a full line.
C15_FirstLineWins ==
    e_pc = "evaluated"
        => /\ check_winner(e_state.board) = FirstFullLineMark(e_state.board)
           /\ (HasLine(e_state.board, "X") /\ HasLine(e_state.board, "O"))
                => e_outcome = FirstFullLineMark(e_state.board)

\* row 1 is the topmost full row and holds O, row 3 is full of X: the winner
\* found is O
C15_Witness ==
    /\ e_pc = "evaluated"
    /\ HasLine(e_state.board, "X")
    /\ HasLine(e_state.board, "O")
    /\ RowFull(e_state.board, 1)
    /\ CellAt(e_state.board, 1, 0) = "O"
    /\ RowFull(e_state.board, 3)
    /\ CellAt(e_state.board, 3, 0) = "X"
    /\ ~RowFull(e_state.board, 0)
    /\ e_outcome = "O"

\* C16: a game with fewer than 2 * BOARD_SIZE - 1 cells filled is in
\* progress: evaluate_state returns None for it, and no mark holds
\* BOARD_SIZE cells.
C16_NoEarlyEnd ==
    FilledCount(GameNow.board) < 2 * BOARD_SIZE - 1
        => /\ evaluate_state(GameNow) = None
           /\ \A mark \in Marks : Count(GameNow.board, mark) < BOARD_SIZE

\* the game after the moves 0, 5, 1, 6, 2 at the command line
C16_Witness ==
    /\ cli_pc = "prompt"
    /\ state.board = ScriptBoard(<<0, 5, 1, 6, 2>>, 5)
    /\ state.active = "O"
    /\ evaluate_state(state) = None

\* C17: a POST /reset, whatever the session held, leaves the session holding
\* the new game (every cell empty, X active); the handler of POST /move then
\* accepts every cell of the board, and a POST /move that follows stores the
\* move of X.
C17_ResetThenMove ==
    [][ /\ response'.handler = "reset"
            => /\ session' = FreshSession
               /\ \A c \in Range(TOTAL_CELLS) :
                    LET decided == MoveDecide(_get_state(session').state, Decimal(c))
                    IN  /\ decided.store
                        /\ decided.flash = ""
                        /\ decided.state.board =
                               [FreshSession["board"] EXCEPT ![c] = "X"]
                        /\ decided.state.active = "O"
        /\ (response.handler = "reset" /\ response'.handler = "move")
            => \A raw \in RawPositions :
                 ( /\ MoveRequest(raw)
                   /\ PyInt(raw).raised = ""
                   /\ PyInt(raw).value \in Range(TOTAL_CELLS) )
                    => /\ response'.flash = ""
                       /\ session' = [board |-> [FreshSession["board"]
                                                    EXCEPT ![PyInt(raw).value] = "X"],
                                      active |-> "O"] ]_vars

\* a POST /reset has been answered, and the session holds the new game
C17_Witness ==
    /\ response.handler = "reset"
    /\ session = FreshSession
    /\ \A c \in Range(TOTAL_CELLS) :
            MoveDecide(_get_state(session).state, Decimal(c)).store

\* C18: in every state of a game begun by new_game() and played through
\* play_round or POST /move, X has as many cells as O or one more, and X is
\* the active mark exactly when the two have as many.
C18_TurnAlternation ==
    LET xs == Count(GameNow.board, "X")
        os == Count(GameNow.board, "O")
    IN  /\ xs - os \in {0, 1}
        /\ GameNow.active \in Marks
        /\ GameNow.active = "X" <=> xs = os
        /\ GameNow.active = "O" <=> xs = os + 1

\* a game at the command line in which O is to answer the third move of X
C18_Witness ==
    /\ cli_pc = "prompt"
    /\ Count(state.board, "X") = 3
    /\ Count(state.board, "O") = 2
    /\ state.active = "O"
    /\ printed = "board"

\* C19: with players who keep supplying accepted moves, every round ends: a
\* prompt for a move is followed by play_round returning (or by the program
\* ending). Each accepted move fills one more of the TOTAL_CELLS cells, the
\* round is over exactly when the board shows a line or is full, and a draw
\* is reported only on a full board.
C19_GameTerminates ==
    /\ [](cli_pc = "prompt" => (~Terminal(state) /\ FilledCount(state.board) < TOTAL_CELLS))
    /\ [](cli_pc = "again" => (Terminal(state) /\ FilledCount(state.board) <= TOTAL_CELLS))
    /\ [](printed = "It's a draw!" => IsFull(state.board))
    /\ [][AcceptedMove => FilledCount(state'.board) = FilledCount(state.board) + 1]_vars
    /\ (cli_pc = "prompt") ~> (cli_pc # "prompt")

\* play_round has returned on a full board without a line and reported a draw
C19_Witness ==
    /\ cli_pc = "again"
    /\ printed = "It's a draw!"
    /\ IsFull(state.board)
    /\ ~HasLine(state.board, "X")
    /\ ~HasLine(state.board, "O")

====
